---- MODULE Spec2Model ----
(***************************************************************************)
(* Model of src/userprog/syscall.c: the trap entry point syscall_handler,  *)
(* the dispatch table syscall_vec, the thirteen handlers and the two-list  *)
(* file-descriptor registry (open_file_list, thread->all_files) guarded by *)
(* file_lock.                                                              *)
(*                                                                         *)
(* Every process is one kernel thread.  Threads are preemptible, so each   *)
(* handler is split into steps at the points where it touches shared state *)
(* (file_lock, fid, open_file_list, a file object).  Purely thread-local   *)
(* statements are folded into the step that follows them.  Each call of a  *)
(* list primitive (list_push_back, list_remove) is one step.               *)
(***************************************************************************)
EXTENDS Integers, Sequences, FiniteSets, TLC

(* ---------------------------------------------------------------------- *)
(* Bounds of the model                                                     *)
(* ---------------------------------------------------------------------- *)
MaxFiles == 2      \* filesys_open succeeds at most this many times
MaxRaceFiles == 4  \* the same, in the race on the identifier counter
MaxSize == 1       \* largest byte count passed to read / write
WordBits == 24     \* width of the modelled machine word.  The machine's is
                   \* 32; TLC's integers end at 2^31 - 1, so addresses and
                   \* sizes are modelled WordBits wide, with the machine's
                   \* split of the address space (kernel = top quarter)

(* ---------------------------------------------------------------------- *)
(* Program constants                                                       *)
(* ---------------------------------------------------------------------- *)
\* start of kernel virtual memory: 0xc0000000 of 2^32, three quarters up
PHYS_BASE == 3 * 2 ^ (WordBits - 2)
STDIN_FILENO == 0
STDOUT_FILENO == 1
FirstFid == 2             \* static int fid = 2

SYS_HALT == 0
SYS_EXIT == 1
SYS_EXEC == 2
SYS_WAIT == 3
SYS_CREATE == 4
SYS_REMOVE == 5
SYS_OPEN == 6
SYS_FILESIZE == 7
SYS_READ == 8
SYS_WRITE == 9
SYS_SEEK == 10
SYS_TELL == 11
SYS_CLOSE == 12
SYS_INUMBER == 19
VecSize == 128            \* static handler syscall_vec[128]
LoopCounterBits == 16     \* uint16_t i in sys_read

Procs == {"P", "Q"}
NoProc == "none"
NULL == 0                 \* null pointer (user pointer, struct file *, fde *)
NoHandler == "null"       \* zero-initialised slot of syscall_vec
Unset == <<>>             \* f->eax not written, status not recorded
Val(v) == <<v>>           \* a written register or recorded status

(* ---------------------------------------------------------------------- *)
(* Address validator and pointer arithmetic                                *)
(* ---------------------------------------------------------------------- *)
\* threads/vaddr.h: is_user_vaddr (vaddr) is vaddr < PHYS_BASE
is_user_vaddr(vaddr) == vaddr < PHYS_BASE

\* pointer arithmetic wraps at the width of the machine word
PtrAdd(a, k) == (a + k) % (2 ^ WordBits)

\* address of the k-th int above the trap-time stack pointer (stk_pos + k)
Slot(esp, k) == PtrAdd(esp, 4 * k)

(* ---------------------------------------------------------------------- *)
(* Dispatch table as filled by syscall_init                                *)
(* ---------------------------------------------------------------------- *)
syscall_vec ==
  [n \in 0..(VecSize - 1) |->
     CASE n = SYS_EXIT     -> "sys_exit"
       [] n = SYS_HALT     -> "sys_halt"
       [] n = SYS_CREATE   -> "sys_create"
       [] n = SYS_OPEN     -> "sys_open"
       [] n = SYS_CLOSE    -> "sys_close"
       [] n = SYS_READ     -> "sys_read"
       [] n = SYS_WRITE    -> "sys_write"
       [] n = SYS_EXEC     -> "sys_exec"
       [] n = SYS_WAIT     -> "sys_wait"
       [] n = SYS_FILESIZE -> "sys_filesize"
       [] n = SYS_SEEK     -> "sys_seek"
       [] n = SYS_TELL     -> "sys_tell"
       [] n = SYS_REMOVE   -> "sys_remove"
       [] OTHER            -> NoHandler]

Registered == {n \in 0..(VecSize - 1) : syscall_vec[n] # NoHandler}

(* ---------------------------------------------------------------------- *)
(* Inputs: what user code can put on its stack before int 0x30             *)
(* ---------------------------------------------------------------------- *)
GoodEsp == PHYS_BASE - 16
EspVals == {PHYS_BASE - 16, PHYS_BASE - 12, PHYS_BASE - 8, PHYS_BASE - 4, PHYS_BASE}
\* every registered number, the last number inside the checked range, and
\* the two numbers just outside it
NVals == (SYS_HALT - 1)..SYS_CLOSE \cup {SYS_INUMBER, SYS_INUMBER + 1}
PtrVals == {NULL, PHYS_BASE - 1, PHYS_BASE}
\* a buffer whose last byte is the last user byte when size = MaxSize, and
\* a kernel address
BufVals == {PHYS_BASE - MaxSize, PHYS_BASE}
SizeVals == 0..MaxSize
FdVals == 0..(FirstFid + MaxFiles - 1)
StatusVals == {-1, 0}
GarbageVals == {-1, 0}    \* eax left behind by a handler declared void

ArgSets(n) ==
  CASE n = SYS_EXIT -> {<<s, 0, 0>> : s \in StatusVals}
    [] n \in {SYS_EXEC, SYS_CREATE, SYS_REMOVE, SYS_OPEN} ->
         {<<ptr, 0, 0>> : ptr \in PtrVals}
    [] n \in {SYS_FILESIZE, SYS_SEEK, SYS_TELL, SYS_CLOSE} ->
         {<<fd, 0, 0>> : fd \in FdVals}
    [] n \in {SYS_READ, SYS_WRITE} ->
         {<<fd, b, s>> : fd \in FdVals, b \in BufVals, s \in SizeVals}
    [] OTHER -> {<<0, 0, 0>>}

\* frames on a stack that lies wholly in user memory
GoodFrames ==
  UNION {{[esp |-> GoodEsp, n |-> n, a |-> a] : a \in ArgSets(n)} : n \in NVals}

\* frames whose stack pointer or argument slots reach into kernel memory
BadStackFrames ==
  {[esp |-> e, n |-> n, a |-> <<0, 0, 0>>] :
      e \in EspVals \ {GoodEsp}, n \in {SYS_HALT - 1, SYS_HALT, SYS_INUMBER + 1}}

TrapFrames == GoodFrames \cup BadStackFrames

\* the calls of two processes that share the registry and the lock: each
\* opens, reads, seeks, closes, creates and exits, with pointers that pass
\* the address checks and with every identifier open can have issued (close
\* also with the two reserved identifiers)
ConcFrames ==
  {f \in GoodFrames :
     \/ f.n = SYS_EXIT /\ f.a[1] = 0
     \/ f.n \in {SYS_OPEN, SYS_CREATE} /\ f.a[1] = PHYS_BASE - 1
     \/ f.n = SYS_CLOSE
     \/ f.n = SYS_SEEK /\ f.a[1] >= FirstFid
     \/ f.n = SYS_READ /\ f.a[1] >= FirstFid /\ f.a[2] = PHYS_BASE - MaxSize /\ f.a[3] = 0}

\* the calls of the identifier race: P opens and exits while Q opens
RaceFrames(p) ==
  {f \in GoodFrames :
     \/ f.n = SYS_OPEN /\ f.a[1] = PHYS_BASE - 1
     \/ p = "P" /\ f.n = SYS_EXIT /\ f.a[1] = 0}

\* buffers and sizes around the kernel boundary and around the wrap of the
\* machine word: buffer + size can equal PHYS_BASE, exceed it, and wrap to
\* a small address
RangeBufs == {PHYS_BASE - 2, PHYS_BASE - 1, PHYS_BASE, 2 ^ WordBits - 1}
RangeSizes == {0, 1, 2, 3, 2 ^ WordBits - PHYS_BASE, 2 ^ WordBits - PHYS_BASE + 1,
               2 ^ WordBits - PHYS_BASE + 2, 2 ^ WordBits - 1}

\* an open, and reads and writes of the first file identifier with those
\* buffers and sizes
RangeFrames ==
  {[esp |-> GoodEsp, n |-> SYS_OPEN, a |-> <<PHYS_BASE - 1, 0, 0>>]}
  \cup {[esp |-> GoodEsp, n |-> n, a |-> <<FirstFid, b, sz>>] :
          n \in {SYS_READ, SYS_WRITE}, b \in RangeBufs, sz \in RangeSizes}

\* sizes of a read from the keyboard below, at and above the number of
\* values of the loop counter
StdinSizes == {0, 1, 2 ^ LoopCounterBits - 1, 2 ^ LoopCounterBits,
               2 ^ LoopCounterBits + 1}
StdinFrames ==
  {[esp |-> GoodEsp, n |-> SYS_READ, a |-> <<STDIN_FILENO, PHYS_BASE - 1, sz>>] :
      sz \in StdinSizes}
\* values of the counter at the start of the loop and just before it wraps
StdinCounters == {0, 2 ^ LoopCounterBits - 2, 2 ^ LoopCounterBits - 1}

NoFrame == [esp |-> 0, n |-> 0, a |-> <<0, 0, 0>>]

(* ---------------------------------------------------------------------- *)
(* State                                                                   *)
(* ---------------------------------------------------------------------- *)
VARIABLES
  machine,          \* "on", "off" (shutdown_power_off) or "panic"
  pc,               \* position of each thread
  frame,            \* the trap frame: esp and the four stack words
  log,              \* per trap: the addresses given to is_user_vaddr, the
                    \* addresses of the stack words the kernel read, and
                    \* the number of input_getc calls
  file_lock,        \* holder of file_lock, or NoProc
  fid,              \* static int fid of sys_open
  open_file_list,   \* global list of filedescriptor_elem (via elem)
  all_files,        \* per-thread list (via thread_elem)
  files,            \* struct file objects: who opened, how often closed
  loc,              \* locals of the running handler
  exit_arg,         \* argument of sys_exit while it runs, else Unset
  return_status,    \* cur->return_status
  eax,              \* f->eax
  issued            \* identifiers returned by sys_open, in order

vars == <<machine, pc, frame, log, file_lock, fid, open_file_list, all_files,
          files, loc, exit_arg, return_status, eax, issued>>

NoLog == [checked |-> {}, read |-> {}, getc |-> 0]
NoFde == [filedesc |-> 0, file |-> NULL]     \* fde == NULL
NoLoc == [fl |-> NULL, fde |-> NoFde, file_desc |-> 0, i |-> 0, tmp |-> 0]

Init ==
  /\ machine = "on"
  /\ pc = [p \in Procs |-> "user"]
  /\ frame = [p \in Procs |-> NoFrame]
  /\ log = [p \in Procs |-> NoLog]
  /\ file_lock = NoProc
  /\ fid = FirstFid
  /\ open_file_list = <<>>
  /\ all_files = [p \in Procs |-> <<>>]
  /\ files = <<>>
  /\ loc = [p \in Procs |-> NoLoc]
  /\ exit_arg = [p \in Procs |-> Unset]
  /\ return_status = [p \in Procs |-> Unset]
  /\ eax = [p \in Procs |-> Unset]
  /\ issued = <<>>

(* ---------------------------------------------------------------------- *)
(* Helpers                                                                 *)
(* ---------------------------------------------------------------------- *)
Range(s) == {s[k] : k \in DOMAIN s}

\* list_push_back (list, elem)
list_push_back(list, e) == Append(list, e)

\* list_remove (elem): unlink the record from the list it is on
list_remove(list, e) == SelectSeq(list, LAMBDA x : x # e)

\* first record of a list carrying the identifier, or NoFde
FirstWith(list, file_desc) ==
  IF \E k \in DOMAIN list : list[k].filedesc = file_desc
  THEN list[CHOOSE k \in DOMAIN list :
              /\ list[k].filedesc = file_desc
              /\ \A j \in 1..(k - 1) : list[j].filedesc # file_desc]
  ELSE NoFde

\* find_file_by_fde: walks the GLOBAL list, returns fd->file or NULL
find_file_by_fde(file_desc) == FirstWith(open_file_list, file_desc).file

\* find_fde_by_file: walks the CALLER'S list, returns the record or NULL
find_fde_by_file(p, file_desc) == FirstWith(all_files[p], file_desc)

(* ---------------------------------------------------------------------- *)
(* Leaving a handler                                                       *)
(* ---------------------------------------------------------------------- *)
\* syscall_handler line 93: f->eax = return_value; return
Return(p, value) ==
  /\ pc' = [pc EXCEPT ![p] = "ret"]
  /\ eax' = [eax EXCEPT ![p] = Val(value)]
  /\ loc' = [loc EXCEPT ![p] = NoLoc]
  /\ UNCHANGED <<exit_arg>>

\* sys_exit lines 168-176: the loop test, and the argument of the sys_close
\* call of the next iteration (the identifier of the first owned record)
ExitLoop(p, own) ==
  IF own = <<>>
  THEN /\ pc' = [pc EXCEPT ![p] = "exit_end"]
       /\ loc' = [loc EXCEPT ![p] = NoLoc]
  ELSE /\ pc' = [pc EXCEPT ![p] = "sys_close"]
       /\ loc' = [loc EXCEPT ![p] = [NoLoc EXCEPT !.file_desc = Head(own).filedesc]]

\* sys_exit (status), lines 159-176, called with the lock in state `lock`:
\* release file_lock if the caller holds it, then start the teardown loop
sys_exit(p, status, lock) ==
  /\ file_lock' = IF lock = p THEN NoProc ELSE lock
  /\ exit_arg' = [exit_arg EXCEPT ![p] = Val(status)]
  /\ ExitLoop(p, all_files[p])
  /\ UNCHANGED <<eax>>

(* ---------------------------------------------------------------------- *)
(* Trap entry point: syscall_handler, lines 72-95                          *)
(* ---------------------------------------------------------------------- *)
\* line 83: the range check on the syscall number
InRange(n) == ~(n < SYS_HALT \/ n > SYS_INUMBER)

\* faulty variant of ArgsValid: the check of line 88 with the third slot
\* forgotten
ArgsValid_two_slots(stk_pos) ==
  /\ is_user_vaddr(Slot(stk_pos, 1))
  /\ is_user_vaddr(Slot(stk_pos, 2))

\* line 88: the three argument slots, checked left to right; && stops at
\* the first slot that fails
ArgsValid(stk_pos) ==
  /\ is_user_vaddr(Slot(stk_pos, 1))
  /\ is_user_vaddr(Slot(stk_pos, 2))
  /\ is_user_vaddr(Slot(stk_pos, 3))

\* the slot addresses line 88 hands to is_user_vaddr
ArgChecks(stk_pos) ==
  IF ~is_user_vaddr(Slot(stk_pos, 1)) THEN {Slot(stk_pos, 1)}
  ELSE IF ~is_user_vaddr(Slot(stk_pos, 2))
       THEN {Slot(stk_pos, 1), Slot(stk_pos, 2)}
       ELSE {Slot(stk_pos, 1), Slot(stk_pos, 2), Slot(stk_pos, 3)}

\* line 91: the three argument words are read
ArgReads(stk_pos) == {Slot(stk_pos, 1), Slot(stk_pos, 2), Slot(stk_pos, 3)}

\* the whole of syscall_handler up to the call of the handler; `F` is the
\* set of frames user code may present
Trap(p, F) ==
  /\ machine = "on"
  /\ pc[p] = "user"
  /\ \E f \in F :
       LET stk_pos == f.esp
           l80 == [NoLog EXCEPT !.checked = {stk_pos}]
           l83 == [l80 EXCEPT !.read = {stk_pos}]
           l88 == [l83 EXCEPT !.checked = @ \cup ArgChecks(stk_pos)]
           l91 == [l88 EXCEPT !.read = @ \cup ArgReads(stk_pos)]
       IN /\ frame' = [frame EXCEPT ![p] = f]
          /\ IF ~is_user_vaddr(stk_pos)
             THEN /\ log' = [log EXCEPT ![p] = l80]
                  /\ sys_exit(p, -1, file_lock)
             ELSE IF ~InRange(f.n)
             THEN /\ log' = [log EXCEPT ![p] = l83]
                  /\ sys_exit(p, -1, file_lock)
             ELSE IF ~ArgsValid(stk_pos)
             THEN /\ log' = [log EXCEPT ![p] = l88]
                  /\ sys_exit(p, -1, file_lock)
             ELSE /\ log' = [log EXCEPT ![p] = l91]
                  /\ pc' = [pc EXCEPT ![p] = syscall_vec[f.n]]
                  /\ loc' = [loc EXCEPT ![p] =
                               [NoLoc EXCEPT !.file_desc =
                                  IF f.n = SYS_CLOSE THEN f.a[1] ELSE 0]]
                  /\ UNCHANGED <<file_lock, exit_arg, eax>>
  /\ UNCHANGED <<machine, fid, open_file_list, all_files, files,
                 return_status, issued>>

syscall_handler(p) == Trap(p, TrapFrames)

\* the same entry point, for the processes of SpecConc
syscall_handler_conc(p) == Trap(p, ConcFrames)

\* the same entry point, for the processes of SpecRace
syscall_handler_race(p) == Trap(p, RaceFrames(p))

\* the same entry point, for the process of SpecRange
syscall_handler_range(p) == Trap(p, RangeFrames)

\* the same entry point, for the process of SpecStdin
syscall_handler_stdin(p) == Trap(p, StdinFrames)

\* the interrupt returns to user mode; the frame of the trap is gone
iret(p) ==
  /\ machine = "on"
  /\ pc[p] = "ret"
  /\ pc' = [pc EXCEPT ![p] = "user"]
  /\ frame' = [frame EXCEPT ![p] = NoFrame]
  /\ log' = [log EXCEPT ![p] = NoLog]
  /\ eax' = [eax EXCEPT ![p] = Unset]
  /\ UNCHANGED <<machine, file_lock, fid, open_file_list, all_files, files,
                 loc, exit_arg, return_status, issued>>

(* ---------------------------------------------------------------------- *)
(* sys_read, lines 98-128                                                  *)
(* ---------------------------------------------------------------------- *)
\* lines 112 / 140: the two checks of the buffer, || stops at the first
\* operand that is true
BufferChecks(buffer, size) ==
  IF ~is_user_vaddr(buffer) THEN {buffer}
  ELSE {buffer, PtrAdd(buffer, size)}

BufferInvalid(buffer, size) ==
  ~is_user_vaddr(buffer) \/ ~is_user_vaddr(PtrAdd(buffer, size))

\* lines 102-116: lock_acquire, then the branch on file_desc
sys_read(p) ==
  /\ machine = "on"
  /\ pc[p] = "sys_read"
  /\ file_lock = NoProc
  /\ LET file_desc == frame[p].a[1]
         buffer == frame[p].a[2]
         size == frame[p].a[3]
     IN IF file_desc = STDIN_FILENO
        THEN /\ file_lock' = p
             /\ pc' = [pc EXCEPT ![p] = "read_stdin"]
             /\ UNCHANGED <<log, loc, exit_arg, eax>>
        ELSE IF file_desc = STDOUT_FILENO
        THEN /\ Return(p, -1)
             /\ UNCHANGED <<log, file_lock>>
        ELSE IF BufferInvalid(buffer, size)
        THEN /\ log' = [log EXCEPT ![p].checked = @ \cup BufferChecks(buffer, size)]
             /\ sys_exit(p, -1, NoProc)
        ELSE /\ file_lock' = p
             /\ log' = [log EXCEPT ![p].checked = @ \cup BufferChecks(buffer, size)]
             /\ pc' = [pc EXCEPT ![p] = "read_find"]
             /\ UNCHANGED <<loc, exit_arg, eax>>
  /\ UNCHANGED <<machine, frame, fid, open_file_list, all_files, files,
                 return_status, issued>>

\* lines 105-108: one pass of the loop  for (i = 0; i < size; i++), which
\* calls input_getc once and stores the byte at buffer + i.  The count of
\* input_getc calls is kept up to size + 1: one byte too many.
read_stdin(p) ==
  /\ machine = "on"
  /\ pc[p] = "read_stdin"
  /\ LET size == frame[p].a[3]
     IN IF loc[p].i < size
        THEN /\ loc' = [loc EXCEPT ![p].i = (@ + 1) % (2 ^ LoopCounterBits)]
             /\ log' = [log EXCEPT ![p].getc = IF @ > size THEN @ ELSE @ + 1]
             /\ UNCHANGED <<pc, file_lock, exit_arg, eax>>
        ELSE /\ file_lock' = NoProc
             /\ Return(p, size)
             /\ UNCHANGED log
  /\ UNCHANGED <<machine, frame, fid, open_file_list, all_files, files,
                 return_status, issued>>

\* lines 119-123: fl = find_file_by_fde (file_desc)
read_find(p) ==
  /\ machine = "on"
  /\ pc[p] = "read_find"
  /\ LET fl == find_file_by_fde(frame[p].a[1])
     IN IF fl # NULL
        THEN /\ pc' = [pc EXCEPT ![p] = "read_call"]
             /\ loc' = [loc EXCEPT ![p].fl = fl]
             /\ UNCHANGED <<file_lock, exit_arg, eax>>
        ELSE /\ file_lock' = NoProc
             /\ Return(p, -1)
  /\ UNCHANGED <<machine, frame, log, fid, open_file_list, all_files, files,
                 return_status, issued>>

\* lines 121, 126-127: file_read returns (nothing read, or everything),
\* lock_release, return
read_call(p) ==
  /\ machine = "on"
  /\ pc[p] = "read_call"
  /\ file_lock' = NoProc
  /\ \E n \in {0, frame[p].a[3]} : Return(p, n)
  /\ UNCHANGED <<machine, frame, log, fid, open_file_list, all_files, files,
                 return_status, issued>>

(* ---------------------------------------------------------------------- *)
(* sys_write, lines 131-156                                                *)
(* ---------------------------------------------------------------------- *)
\* lines 134-144: lock_acquire, then the branch on file_desc
sys_write(p) ==
  /\ machine = "on"
  /\ pc[p] = "sys_write"
  /\ file_lock = NoProc
  /\ LET file_desc == frame[p].a[1]
         buffer == frame[p].a[2]
         length == frame[p].a[3]
     IN IF file_desc = STDOUT_FILENO
        THEN /\ file_lock' = p
             /\ pc' = [pc EXCEPT ![p] = "write_putbuf"]
             /\ UNCHANGED <<log, loc, exit_arg, eax>>
        ELSE IF file_desc = STDIN_FILENO
        THEN /\ Return(p, -1)
             /\ UNCHANGED <<log, file_lock>>
        ELSE IF BufferInvalid(buffer, length)
        THEN /\ log' = [log EXCEPT ![p].checked = @ \cup BufferChecks(buffer, length)]
             /\ sys_exit(p, -1, NoProc)
        ELSE /\ file_lock' = p
             /\ log' = [log EXCEPT ![p].checked = @ \cup BufferChecks(buffer, length)]
             /\ pc' = [pc EXCEPT ![p] = "write_find"]
             /\ UNCHANGED <<loc, exit_arg, eax>>
  /\ UNCHANGED <<machine, frame, fid, open_file_list, all_files, files,
                 return_status, issued>>

\* faulty variant of write_putbuf: the stdout branch returning without
\* lock_release
write_putbuf_no_release(p) ==
  /\ machine = "on"
  /\ pc[p] = "write_putbuf"
  /\ Return(p, -1)
  /\ UNCHANGED <<machine, frame, log, file_lock, fid, open_file_list,
                 all_files, files, return_status, issued>>

\* lines 136, 154-155: putbuf returns, lock_release, return return_val,
\* which still holds its initial value -1
write_putbuf(p) ==
  /\ machine = "on"
  /\ pc[p] = "write_putbuf"
  /\ file_lock' = NoProc
  /\ Return(p, -1)
  /\ UNCHANGED <<machine, frame, log, fid, open_file_list, all_files, files,
                 return_status, issued>>

\* lines 147-151: f = find_file_by_fde (file_desc); file_write is called
\* whether or not f is NULL
write_find(p) ==
  /\ machine = "on"
  /\ pc[p] = "write_find"
  /\ pc' = [pc EXCEPT ![p] = "write_call"]
  /\ loc' = [loc EXCEPT ![p].fl = find_file_by_fde(frame[p].a[1])]
  /\ UNCHANGED <<machine, frame, log, file_lock, fid, open_file_list,
                 all_files, files, exit_arg, return_status, eax, issued>>

\* lines 151, 154-155: file_write returns (nothing written, or everything),
\* lock_release, return
write_call(p) ==
  /\ machine = "on"
  /\ pc[p] = "write_call"
  /\ loc[p].fl # NULL
  /\ file_lock' = NoProc
  /\ \E n \in {0, frame[p].a[3]} : Return(p, n)
  /\ UNCHANGED <<machine, frame, log, fid, open_file_list, all_files, files,
                 return_status, issued>>

(* ---------------------------------------------------------------------- *)
(* sys_exit (tail) and sys_close, lines 159-198                            *)
(* ---------------------------------------------------------------------- *)
\* lines 179-181: cur->return_status = status; thread_exit ()
thread_exit(p) ==
  /\ machine = "on"
  /\ pc[p] = "exit_end"
  /\ pc' = [pc EXCEPT ![p] = "exited"]
  /\ return_status' = [return_status EXCEPT ![p] = exit_arg[p]]
  /\ UNCHANGED <<machine, frame, log, file_lock, fid, open_file_list,
                 all_files, files, loc, exit_arg, eax, issued>>

\* where sys_close returns to: the teardown loop of sys_exit, or the trap
\* entry point (sys_close is void: eax receives what the register held)
CloseReturn(p, own) ==
  IF exit_arg[p] # Unset
  THEN /\ ExitLoop(p, own)
       /\ UNCHANGED <<exit_arg, eax>>
  ELSE \E g \in GarbageVals : Return(p, g)

\* faulty variant of sys_close: the record is looked up in the global list
\* instead of the caller's own list
sys_close_global(p) ==
  /\ machine = "on"
  /\ pc[p] = "sys_close"
  /\ LET fde == FirstWith(open_file_list, loc[p].file_desc)
     IN IF fde # NoFde
        THEN /\ files' = [files EXCEPT ![fde.file].closed = @ + 1]
             /\ pc' = [pc EXCEPT ![p] = "close_remove_elem"]
             /\ loc' = [loc EXCEPT ![p].fde = fde]
             /\ UNCHANGED <<exit_arg, eax>>
        ELSE /\ CloseReturn(p, all_files[p])
             /\ UNCHANGED files
  /\ UNCHANGED <<machine, frame, log, file_lock, fid, open_file_list,
                 all_files, return_status, issued>>

\* lines 189-193: fde = find_fde_by_file (file_desc); file_close (fde->file)
sys_close(p) ==
  /\ machine = "on"
  /\ pc[p] = "sys_close"
  /\ LET fde == find_fde_by_file(p, loc[p].file_desc)
     IN IF fde # NoFde
        THEN /\ files' = [files EXCEPT ![fde.file].closed = @ + 1]
             /\ pc' = [pc EXCEPT ![p] = "close_remove_elem"]
             /\ loc' = [loc EXCEPT ![p].fde = fde]
             /\ UNCHANGED <<exit_arg, eax>>
        ELSE /\ CloseReturn(p, all_files[p])
             /\ UNCHANGED files
  /\ UNCHANGED <<machine, frame, log, file_lock, fid, open_file_list,
                 all_files, return_status, issued>>

\* faulty variant of close_remove_elem: sys_close without the list_remove
\* of line 194
close_remove_elem_skip(p) ==
  /\ machine = "on"
  /\ pc[p] = "close_remove_elem"
  /\ pc' = [pc EXCEPT ![p] = "close_remove_thread_elem"]
  /\ UNCHANGED <<machine, frame, log, file_lock, fid, open_file_list,
                 all_files, files, loc, exit_arg, return_status, eax, issued>>

\* line 194: list_remove (&fde->elem)
close_remove_elem(p) ==
  /\ machine = "on"
  /\ pc[p] = "close_remove_elem"
  /\ open_file_list' = list_remove(open_file_list, loc[p].fde)
  /\ pc' = [pc EXCEPT ![p] = "close_remove_thread_elem"]
  /\ UNCHANGED <<machine, frame, log, file_lock, fid, all_files, files, loc,
                 exit_arg, return_status, eax, issued>>

\* faulty variant of close_remove_thread_elem: sys_close without the
\* list_remove of line 195
close_remove_thread_elem_skip(p) ==
  /\ machine = "on"
  /\ pc[p] = "close_remove_thread_elem"
  /\ CloseReturn(p, all_files[p])
  /\ UNCHANGED <<machine, frame, log, file_lock, fid, open_file_list, files,
                 all_files, return_status, issued>>

\* lines 195-196: list_remove (&fde->thread_elem); free (fde)
close_remove_thread_elem(p) ==
  /\ machine = "on"
  /\ pc[p] = "close_remove_thread_elem"
  /\ LET own == list_remove(all_files[p], loc[p].fde)
     IN /\ all_files' = [all_files EXCEPT ![p] = own]
        /\ CloseReturn(p, own)
  /\ UNCHANGED <<machine, frame, log, file_lock, fid, open_file_list, files,
                 return_status, issued>>

\* the exit system call: the handler registered for SYS_EXIT
sys_exit_call(p) ==
  /\ machine = "on"
  /\ pc[p] = "sys_exit"
  /\ sys_exit(p, frame[p].a[1], file_lock)
  /\ UNCHANGED <<machine, frame, log, fid, open_file_list, all_files, files,
                 return_status, issued>>

(* ---------------------------------------------------------------------- *)
(* sys_create, lines 201-213                                               *)
(* ---------------------------------------------------------------------- *)
\* lines 204-209: the null test, lock_acquire, filesys_create is entered
sys_create(p) ==
  /\ machine = "on"
  /\ pc[p] = "sys_create"
  /\ IF frame[p].a[1] = NULL
     THEN sys_exit(p, -1, file_lock)
     ELSE /\ file_lock = NoProc
          /\ file_lock' = p
          /\ pc' = [pc EXCEPT ![p] = "create_call"]
          /\ UNCHANGED <<loc, exit_arg, eax>>
  /\ UNCHANGED <<machine, frame, log, fid, open_file_list, all_files, files,
                 return_status, issued>>

\* lines 209-212: filesys_create returns, lock_release, return
create_call(p) ==
  /\ machine = "on"
  /\ pc[p] = "create_call"
  /\ file_lock' = NoProc
  /\ \E ok \in {0, 1} : Return(p, ok)
  /\ UNCHANGED <<machine, frame, log, fid, open_file_list, all_files, files,
                 return_status, issued>>

(* ---------------------------------------------------------------------- *)
(* sys_open, lines 216-245                                                 *)
(* ---------------------------------------------------------------------- *)
\* lines 221-225: the null test, the address test, filesys_open is entered
sys_open(p) ==
  /\ machine = "on"
  /\ pc[p] = "sys_open"
  /\ LET file == frame[p].a[1]
     IN IF file = NULL
        THEN /\ Return(p, -1)
             /\ UNCHANGED <<log, file_lock>>
        ELSE IF ~is_user_vaddr(file)
        THEN /\ log' = [log EXCEPT ![p].checked = @ \cup {file}]
             /\ sys_exit(p, -1, file_lock)
        ELSE /\ log' = [log EXCEPT ![p].checked = @ \cup {file}]
             /\ pc' = [pc EXCEPT ![p] = "open_call"]
             /\ UNCHANGED <<file_lock, loc, exit_arg, eax>>
  /\ UNCHANGED <<machine, frame, fid, open_file_list, all_files, files,
                 return_status, issued>>

\* faulty variant of open_call: on a failed malloc the file object is not
\* closed (the file_close of line 232 left out)
open_call_no_close(p) ==
  /\ machine = "on"
  /\ pc[p] = "open_call"
  /\ \E outcome \in {"no file", "no memory", "opened"} :
       IF outcome = "no file"
       THEN /\ Return(p, -1)
            /\ UNCHANGED files
       ELSE /\ Len(files) < MaxFiles
            /\ IF outcome = "no memory"
               THEN /\ files' = Append(files, [by |-> p, closed |-> 0])
                    /\ Return(p, -1)
               ELSE /\ files' = Append(files, [by |-> p, closed |-> 0])
                    /\ pc' = [pc EXCEPT ![p] = "open_fid_store"]
                    /\ loc' = [loc EXCEPT ![p] =
                                 [NoLoc EXCEPT !.fde = [filedesc |-> 0, file |-> Len(files) + 1],
                                               !.tmp = fid]]
                    /\ UNCHANGED <<exit_arg, eax>>
  /\ UNCHANGED <<machine, frame, log, file_lock, fid, open_file_list,
                 all_files, return_status, issued>>

\* lines 225-239: filesys_open returns NULL, or a new file object; then
\* malloc fails and the file is closed again, or the record is allocated
\* and the right-hand side of  fde->filedesc = fid++  loads fid; `limit`
\* bounds the number of file objects ever created
OpenCall(p, limit) ==
  /\ machine = "on"
  /\ pc[p] = "open_call"
  /\ \E outcome \in {"no file", "no memory", "opened"} :
       IF outcome = "no file"
       THEN /\ Return(p, -1)
            /\ UNCHANGED files
       ELSE /\ Len(files) < limit
            /\ IF outcome = "no memory"
               THEN /\ files' = Append(files, [by |-> p, closed |-> 1])
                    /\ Return(p, -1)
               ELSE /\ files' = Append(files, [by |-> p, closed |-> 0])
                    /\ pc' = [pc EXCEPT ![p] = "open_fid_store"]
                    /\ loc' = [loc EXCEPT ![p] =
                                 [NoLoc EXCEPT !.fde = [filedesc |-> 0, file |-> Len(files) + 1],
                                               !.tmp = fid]]
                    /\ UNCHANGED <<exit_arg, eax>>
  /\ UNCHANGED <<machine, frame, log, file_lock, fid, open_file_list,
                 all_files, return_status, issued>>

open_call(p) == OpenCall(p, MaxFiles)

\* the same step, for the processes of SpecRace
open_call_race(p) == OpenCall(p, MaxRaceFiles)

\* line 239: fid++ stores the incremented value; the old one is the id
open_fid_store(p) ==
  /\ machine = "on"
  /\ pc[p] = "open_fid_store"
  /\ fid' = loc[p].tmp + 1
  /\ loc' = [loc EXCEPT ![p].fde.filedesc = loc[p].tmp]
  /\ pc' = [pc EXCEPT ![p] = "open_push_elem"]
  /\ UNCHANGED <<machine, frame, log, file_lock, open_file_list, all_files,
                 files, exit_arg, return_status, eax, issued>>

\* faulty variant of open_push_elem: sys_open without the list_push_back
\* of line 240
open_push_elem_skip(p) ==
  /\ machine = "on"
  /\ pc[p] = "open_push_elem"
  /\ pc' = [pc EXCEPT ![p] = "open_push_thread_elem"]
  /\ UNCHANGED <<machine, frame, log, file_lock, fid, open_file_list,
                 all_files, files, loc, exit_arg, return_status, eax, issued>>

\* line 240: list_push_back (&open_file_list, &fde->elem)
open_push_elem(p) ==
  /\ machine = "on"
  /\ pc[p] = "open_push_elem"
  /\ open_file_list' = list_push_back(open_file_list, loc[p].fde)
  /\ pc' = [pc EXCEPT ![p] = "open_push_thread_elem"]
  /\ UNCHANGED <<machine, frame, log, file_lock, fid, all_files, files, loc,
                 exit_arg, return_status, eax, issued>>

\* lines 241-242: list_push_back (&thread_current ()->all_files, ...);
\* return fde->filedesc
open_push_thread_elem(p) ==
  /\ machine = "on"
  /\ pc[p] = "open_push_thread_elem"
  /\ all_files' = [all_files EXCEPT ![p] = list_push_back(@, loc[p].fde)]
  /\ issued' = Append(issued, loc[p].fde.filedesc)
  /\ Return(p, loc[p].fde.filedesc)
  /\ UNCHANGED <<machine, frame, log, file_lock, fid, open_file_list, files,
                 return_status>>

(* ---------------------------------------------------------------------- *)
(* sys_halt, sys_exec, sys_wait, lines 248-267                             *)
(* ---------------------------------------------------------------------- *)
\* shutdown_power_off () does not return
sys_halt(p) ==
  /\ machine = "on"
  /\ pc[p] = "sys_halt"
  /\ machine' = "off"
  /\ UNCHANGED <<pc, frame, log, file_lock, fid, open_file_list, all_files,
                 files, loc, exit_arg, return_status, eax, issued>>

\* lines 255-259: the pointer tests, lock_acquire, process_execute entered
sys_exec(p) ==
  /\ machine = "on"
  /\ pc[p] = "sys_exec"
  /\ LET cmd == frame[p].a[1]
     IN IF cmd = NULL
        THEN /\ Return(p, -1)
             /\ UNCHANGED <<log, file_lock>>
        ELSE IF ~is_user_vaddr(cmd)
        THEN /\ log' = [log EXCEPT ![p].checked = @ \cup {cmd}]
             /\ Return(p, -1)
             /\ UNCHANGED file_lock
        ELSE /\ file_lock = NoProc
             /\ file_lock' = p
             /\ log' = [log EXCEPT ![p].checked = @ \cup {cmd}]
             /\ pc' = [pc EXCEPT ![p] = "exec_call"]
             /\ UNCHANGED <<loc, exit_arg, eax>>
  /\ UNCHANGED <<machine, frame, fid, open_file_list, all_files, files,
                 return_status, issued>>

\* lines 259-261: process_execute returns a tid or TID_ERROR, lock_release
exec_call(p) ==
  /\ machine = "on"
  /\ pc[p] = "exec_call"
  /\ file_lock' = NoProc
  /\ \E tid \in {-1, 1} : Return(p, tid)
  /\ UNCHANGED <<machine, frame, log, fid, open_file_list, all_files, files,
                 return_status, issued>>

\* line 266: return process_wait (tid)
sys_wait(p) ==
  /\ machine = "on"
  /\ pc[p] = "sys_wait"
  /\ \E status \in {-1, 0} : Return(p, status)
  /\ UNCHANGED <<machine, frame, log, file_lock, fid, open_file_list,
                 all_files, files, return_status, issued>>

(* ---------------------------------------------------------------------- *)
(* sys_filesize, sys_tell, sys_seek, sys_remove, lines 285-328             *)
(* ---------------------------------------------------------------------- *)
\* lines 287-289, 297-300: the lookup of sys_filesize and of sys_tell
LookupOrFail(p, call) ==
  LET f == find_file_by_fde(frame[p].a[1])
  IN IF f = NULL
     THEN Return(p, -1)
     ELSE /\ pc' = [pc EXCEPT ![p] = call]
          /\ loc' = [loc EXCEPT ![p].fl = f]
          /\ UNCHANGED <<exit_arg, eax>>

sys_filesize(p) ==
  /\ machine = "on"
  /\ pc[p] = "sys_filesize"
  /\ LookupOrFail(p, "filesize_call")
  /\ UNCHANGED <<machine, frame, log, file_lock, fid, open_file_list,
                 all_files, files, return_status, issued>>

\* line 291: return file_length (file_size)
filesize_call(p) ==
  /\ machine = "on"
  /\ pc[p] = "filesize_call"
  /\ \E len \in SizeVals : Return(p, len)
  /\ UNCHANGED <<machine, frame, log, file_lock, fid, open_file_list,
                 all_files, files, return_status, issued>>

sys_tell(p) ==
  /\ machine = "on"
  /\ pc[p] = "sys_tell"
  /\ LookupOrFail(p, "tell_call")
  /\ UNCHANGED <<machine, frame, log, file_lock, fid, open_file_list,
                 all_files, files, return_status, issued>>

\* lines 302-303: return file_tell (f)
tell_call(p) ==
  /\ machine = "on"
  /\ pc[p] = "tell_call"
  /\ \E pos \in SizeVals : Return(p, pos)
  /\ UNCHANGED <<machine, frame, log, file_lock, fid, open_file_list,
                 all_files, files, return_status, issued>>

\* lines 309-311: the lookup; an unresolved identifier ends the process
sys_seek(p) ==
  /\ machine = "on"
  /\ pc[p] = "sys_seek"
  /\ LET fl == find_file_by_fde(frame[p].a[1])
     IN IF fl = NULL
        THEN sys_exit(p, -1, file_lock)
        ELSE /\ pc' = [pc EXCEPT ![p] = "seek_call"]
             /\ loc' = [loc EXCEPT ![p].fl = fl]
             /\ UNCHANGED <<file_lock, exit_arg, eax>>
  /\ UNCHANGED <<machine, frame, log, fid, open_file_list, all_files, files,
                 return_status, issued>>

\* line 313: file_seek (fl, pos); sys_seek is void
seek_call(p) ==
  /\ machine = "on"
  /\ pc[p] = "seek_call"
  /\ \E g \in GarbageVals : Return(p, g)
  /\ UNCHANGED <<machine, frame, log, file_lock, fid, open_file_list,
                 all_files, files, return_status, issued>>

\* lines 317-324: the null test, the address test, lock_acquire,
\* filesys_remove is entered
sys_remove(p) ==
  /\ machine = "on"
  /\ pc[p] = "sys_remove"
  /\ LET file == frame[p].a[1]
     IN IF file = NULL
        THEN /\ Return(p, 0)
             /\ UNCHANGED <<log, file_lock>>
        ELSE IF ~is_user_vaddr(file)
        THEN /\ log' = [log EXCEPT ![p].checked = @ \cup {file}]
             /\ sys_exit(p, -1, file_lock)
        ELSE /\ file_lock = NoProc
             /\ file_lock' = p
             /\ log' = [log EXCEPT ![p].checked = @ \cup {file}]
             /\ pc' = [pc EXCEPT ![p] = "remove_call"]
             /\ UNCHANGED <<loc, exit_arg, eax>>
  /\ UNCHANGED <<machine, frame, fid, open_file_list, all_files, files,
                 return_status, issued>>

\* lines 324-327: filesys_remove returns, lock_release, return
remove_call(p) ==
  /\ machine = "on"
  /\ pc[p] = "remove_call"
  /\ file_lock' = NoProc
  /\ \E ok \in {0, 1} : Return(p, ok)
  /\ UNCHANGED <<machine, frame, log, fid, open_file_list, all_files, files,
                 return_status, issued>>

(* ---------------------------------------------------------------------- *)
(* Faults inside the kernel                                                *)
(* ---------------------------------------------------------------------- *)
FileCallPcs == {"read_call", "write_call", "filesize_call", "tell_call", "seek_call"}

\* the thread jumped through a null handler, or is inside a file operation
\* on a null or freed struct file
Faulting(p) ==
  \/ pc[p] = NoHandler
  \/ /\ pc[p] \in FileCallPcs
     /\ IF loc[p].fl = NULL THEN TRUE ELSE files[loc[p].fl].closed > 0

\* the page fault either panics the kernel or ends the process through the
\* teardown path
kernel_fault(p) ==
  /\ machine = "on"
  /\ Faulting(p)
  /\ \E outcome \in {"panic", "kill"} :
       IF outcome = "panic"
       THEN /\ machine' = "panic"
            /\ UNCHANGED <<pc, file_lock, loc, exit_arg, eax>>
       ELSE /\ machine' = machine
            /\ sys_exit(p, -1, file_lock)
  /\ UNCHANGED <<frame, log, fid, open_file_list, all_files, files,
                 return_status, issued>>

(* ---------------------------------------------------------------------- *)
(* Specification                                                           *)
(* ---------------------------------------------------------------------- *)
\* One process, every frame user code can present: each path through the
\* trap entry point and the handlers.
Next ==
  \E p \in {"P"} :
    \/ syscall_handler(p) \/ iret(p)
    \/ sys_read(p) \/ read_stdin(p) \/ read_find(p) \/ read_call(p)
    \/ sys_write(p) \/ write_putbuf(p) \/ write_find(p) \/ write_call(p)
    \/ sys_exit_call(p) \/ thread_exit(p)
    \/ sys_close(p) \/ close_remove_elem(p) \/ close_remove_thread_elem(p)
    \/ sys_create(p) \/ create_call(p)
    \/ sys_open(p) \/ open_call(p) \/ open_fid_store(p) \/ open_push_elem(p)
    \/ open_push_thread_elem(p)
    \/ sys_halt(p) \/ sys_exec(p) \/ exec_call(p) \/ sys_wait(p)
    \/ sys_filesize(p) \/ filesize_call(p) \/ sys_tell(p) \/ tell_call(p)
    \/ sys_seek(p) \/ seek_call(p) \/ sys_remove(p) \/ remove_call(p)
    \/ kernel_fault(p)

Spec == Init /\ [][Next]_vars

\* Two preemptible processes on the shared registry and lock.
NextConc ==
  \E p \in Procs :
    \/ syscall_handler_conc(p) \/ iret(p)
    \/ sys_read(p) \/ read_find(p) \/ read_call(p)
    \/ sys_exit_call(p) \/ thread_exit(p)
    \/ sys_close(p) \/ close_remove_elem(p) \/ close_remove_thread_elem(p)
    \/ sys_create(p) \/ create_call(p)
    \/ sys_open(p) \/ open_call(p) \/ open_fid_store(p) \/ open_push_elem(p)
    \/ open_push_thread_elem(p)
    \/ sys_seek(p) \/ seek_call(p)
    \/ kernel_fault(p)

SpecConc == Init /\ [][NextConc]_vars

\* The race on the identifier counter: two preemptible processes, enough
\* file objects for a stale store of fid to fall between two opens of P.
NextRace ==
  \E p \in Procs :
    \/ syscall_handler_race(p) \/ iret(p)
    \/ sys_open(p) \/ open_call_race(p) \/ open_fid_store(p) \/ open_push_elem(p)
    \/ open_push_thread_elem(p)
    \/ sys_close(p) \/ close_remove_elem(p) \/ close_remove_thread_elem(p)
    \/ sys_exit_call(p) \/ thread_exit(p)

SpecRace == Init /\ [][NextRace]_vars

\* The teardown of a list with a repeated identifier: as in the race, but
\* Q opens one file only, which is what rewinds the counter.
TeardownFrames(p) ==
  IF p = "P" \/ \A f \in DOMAIN files : files[f].by # p
    THEN RaceFrames(p)
    ELSE {}

syscall_handler_teardown(p) == Trap(p, TeardownFrames(p))

TeardownStep(p) ==
  \/ syscall_handler_teardown(p) \/ iret(p)
  \/ sys_open(p) \/ open_call_race(p) \/ open_fid_store(p) \/ open_push_elem(p)
  \/ open_push_thread_elem(p)
  \/ sys_close(p) \/ close_remove_elem(p) \/ close_remove_thread_elem(p)
  \/ sys_exit_call(p) \/ thread_exit(p)

NextTeardown == \E p \in Procs : TeardownStep(p)

\* The scheduler is preemptive round robin: a thread that can take a step
\* is not passed over for ever.
SpecTeardown ==
  Init /\ [][NextTeardown]_vars /\ \A p \in Procs : WF_vars(TeardownStep(p))

\* The range check of the file branch of read and write: one process that
\* can open a file and then reads and writes it with buffers and sizes
\* around the kernel boundary and the wrap of the machine word.
NextRange ==
  \E p \in {"P"} :
    \/ syscall_handler_range(p) \/ iret(p)
    \/ sys_open(p) \/ open_call(p) \/ open_fid_store(p) \/ open_push_elem(p)
    \/ open_push_thread_elem(p)
    \/ sys_read(p) \/ read_find(p) \/ read_call(p)
    \/ sys_write(p) \/ write_find(p) \/ write_call(p)
    \/ sys_close(p) \/ close_remove_elem(p) \/ close_remove_thread_elem(p)
    \/ thread_exit(p) \/ kernel_fault(p)

SpecRange == Init /\ [][NextRange]_vars

\* P in user mode, or inside the loop of a read from the keyboard that has
\* made i passes without the counter having wrapped: the states that
\* syscall_handler, sys_read and i passes of the loop lead to from Init
InitStdin ==
  /\ machine = "on"
  /\ fid = FirstFid
  /\ open_file_list = <<>>
  /\ all_files = [p \in Procs |-> <<>>]
  /\ files = <<>>
  /\ exit_arg = [p \in Procs |-> Unset]
  /\ return_status = [p \in Procs |-> Unset]
  /\ eax = [p \in Procs |-> Unset]
  /\ issued = <<>>
  /\ \/ /\ pc = [p \in Procs |-> "user"]
        /\ frame = [p \in Procs |-> NoFrame]
        /\ log = [p \in Procs |-> NoLog]
        /\ loc = [p \in Procs |-> NoLoc]
        /\ file_lock = NoProc
     \/ \E f \in StdinFrames : \E i \in StdinCounters :
          /\ i <= f.a[3]
          /\ pc = [p \in Procs |-> IF p = "P" THEN "read_stdin" ELSE "user"]
          /\ frame = [p \in Procs |-> IF p = "P" THEN f ELSE NoFrame]
          /\ log = [p \in Procs |->
                     IF p = "P"
                     THEN [checked |-> {f.esp} \cup ArgChecks(f.esp),
                           read |-> {f.esp} \cup ArgReads(f.esp),
                           getc |-> i]
                     ELSE NoLog]
          /\ loc = [p \in Procs |-> IF p = "P" THEN [NoLoc EXCEPT !.i = i] ELSE NoLoc]
          /\ file_lock = "P"

\* The loop of a read from the keyboard, with its 16-bit counter.
NextStdin ==
  \E p \in {"P"} :
    \/ syscall_handler_stdin(p) \/ sys_read(p) \/ read_stdin(p) \/ iret(p)

SpecStdin == InitStdin /\ [][NextStdin]_vars

TypeOK ==
  /\ machine \in {"on", "off", "panic"}
  /\ file_lock \in Procs \cup {NoProc}
  /\ fid \in FirstFid..(FirstFid + MaxFiles)
  /\ Len(files) <= MaxFiles

(* ---------------------------------------------------------------------- *)
(* Vocabulary of the properties                                            *)
(* ---------------------------------------------------------------------- *)
Ids(list) == {list[k].filedesc : k \in DOMAIN list}
Files(list) == {list[k].file : k \in DOMAIN list}
Count(list, e) == Cardinality({k \in DOMAIN list : list[k] = e})

\* positions inside sys_exit: its teardown loop and the call of thread_exit
ExitPcs == {"sys_close", "close_remove_elem", "close_remove_thread_elem",
            "exit_end", "exited"}
InExit(p) == pc[p] \in ExitPcs /\ exit_arg[p] # Unset

\* positions inside a collaborator that the file lock is meant to serialise
CollabPcs == {"create_call", "remove_call", "open_call", "read_call",
              "read_stdin", "write_call", "write_putbuf", "exec_call"}

\* positions inside sys_open and inside sys_close
OpenPcs == {"sys_open", "open_call", "open_fid_store", "open_push_elem",
            "open_push_thread_elem"}
ClosePcs == {"sys_close", "close_remove_elem", "close_remove_thread_elem"}

\* the address validator was applied to addr in this trap and accepted it
Validated(p, addr) == addr \in log[p].checked /\ is_user_vaddr(addr)

\* the thread is about to dereference a user pointer, or is inside a
\* collaborator that was handed one
UsesPointer(p) ==
  \/ pc[p] = "read_stdin" /\ loc[p].i < frame[p].a[3]
  \/ pc[p] \in {"read_call", "write_call", "write_putbuf", "create_call",
               "open_call", "remove_call", "exec_call"}

UsedPointer(p) ==
  IF pc[p] \in {"read_stdin", "read_call", "write_call", "write_putbuf"}
  THEN frame[p].a[2]
  ELSE frame[p].a[1]

(* ---------------------------------------------------------------------- *)
(* C1                                                                      *)
(* ---------------------------------------------------------------------- *)
\* C1: handle isolation.  If identifier id is in Q's ownership set and not
\* in P's, a read, write, seek, tell or filesize issued by P with id never
\* reaches a file operation on Q's open-file object.
C1_HandleIsolation ==
  \A p \in Procs : \A q \in Procs \ {p} :
    ( /\ pc[p] \in FileCallPcs
      /\ frame[p].a[1] \in Ids(all_files[q])
      /\ frame[p].a[1] \notin Ids(all_files[p]) )
    => loc[p].fl \notin Files(all_files[q])

(* ---------------------------------------------------------------------- *)
(* C2                                                                      *)
(* ---------------------------------------------------------------------- *)
\* C2: validate before use.  Whenever a handler dereferences a user pointer
\* or hands it to a collaborator (the store of input_getc, putbuf,
\* file_read, file_write, filesys_create, filesys_open, filesys_remove,
\* process_execute), that pointer lies in user address space, which is the
\* least a validation earlier in the trap would have established.
C2_ValidateBeforeUse ==
  \A p \in Procs : UsesPointer(p) => is_user_vaddr(UsedPointer(p))

(* ---------------------------------------------------------------------- *)
(* C3                                                                      *)
(* ---------------------------------------------------------------------- *)
\* C3: teardown on exit.  When a process reaches thread_exit through
\* sys_exit, its ownership list is empty, the global list holds no record
\* of a file it opened, and every file object it opened has been closed
\* exactly once.
C3_TeardownOnExit ==
  \A p \in Procs :
    pc[p] \in {"exit_end", "exited"} =>
      /\ all_files[p] = <<>>
      /\ \A k \in DOMAIN open_file_list : files[open_file_list[k].file].by # p
      /\ \A f \in DOMAIN files : files[f].by = p => files[f].closed = 1

\* a process has exited after every file object became a handle, one of
\* them its own, while the other process still owns an open handle
C3_Witness ==
  \E p \in Procs : \E q \in Procs \ {p} :
    /\ pc[p] = "exited"
    /\ Len(issued) = Len(files)
    /\ \E f \in DOMAIN files : files[f].by = p
    /\ all_files[q] # <<>>
    /\ open_file_list = all_files[q]

(* ---------------------------------------------------------------------- *)
(* C4                                                                      *)
(* ---------------------------------------------------------------------- *)
\* C4: the file lock is never left held.  A thread does not hold file_lock
\* when it reaches thread_exit, nor when a handler has returned its value
\* to the trap entry point.
C4_LockNotLeftHeld ==
  \A p \in Procs :
    pc[p] \in {"exit_end", "exited", "ret"} => file_lock # p

\* a write to a file faulted inside file_write, where the thread held the
\* lock, and the thread has reached thread_exit with the lock free
C4_Witness ==
  \E p \in Procs :
    /\ pc[p] = "exit_end"
    /\ frame[p].n = SYS_WRITE
    /\ frame[p].a[1] >= FirstFid
    /\ ~BufferInvalid(frame[p].a[2], frame[p].a[3])
    /\ file_lock = NoProc

(* ---------------------------------------------------------------------- *)
(* C5                                                                      *)
(* ---------------------------------------------------------------------- *)
\* C5: mutual exclusion.  At most one thread at a time is inside the
\* collaborator call of create, remove, open, read, write or exec, and a
\* thread inside one holds file_lock.
C5_MutualExclusion ==
  /\ Cardinality({p \in Procs : pc[p] \in CollabPcs}) <= 1
  /\ \A p \in Procs : pc[p] \in CollabPcs => file_lock = p

(* ---------------------------------------------------------------------- *)
(* C6                                                                      *)
(* ---------------------------------------------------------------------- *)
Quiescent == \A p \in Procs : pc[p] \notin OpenPcs \cup ClosePcs

C7_UniqueIds ==
  /\ \A j, k \in DOMAIN open_file_list :
       j # k => open_file_list[j].filedesc # open_file_list[k].filedesc
  /\ \A j, k \in DOMAIN issued : j < k => issued[j] < issued[k]

(* ---------------------------------------------------------------------- *)
(* C8                                                                      *)
(* ---------------------------------------------------------------------- *)
\* the trap of p is over: the entry point returned, the process is gone,
\* or the kernel panicked under it
TrapEnded(p) ==
  \/ pc[p] \in {"ret", "exited"}
  \/ pc[p] # "user" /\ machine = "panic"

\* C8: every trap is resolved exactly once.  A trap that is over ended in
\* exactly one of: the handler's value stored in eax, or the termination of
\* the calling process.  (The power-off of halt, which never returns by
\* design, is not counted against the claim.)
C8_ResolvedExactlyOnce ==
  \A p \in Procs :
    TrapEnded(p) => ((eax[p] # Unset) # (pc[p] = "exited"))

(* ---------------------------------------------------------------------- *)
(* C9                                                                      *)
(* ---------------------------------------------------------------------- *)
\* C9: dispatch-table agreement.  Every syscall number that passes the range
\* check of the trap entry point has a handler registered by syscall_init:
\* no number with an empty table slot is looked up and invoked.
C9_DispatchAgreement ==
  \A p \in Procs :
    /\ pc[p] # NoHandler
    /\ (pc[p] # "user" /\ ~InExit(p) /\ InRange(frame[p].n)) =>
         syscall_vec[frame[p].n] # NoHandler

(* ---------------------------------------------------------------------- *)
(* C10                                                                     *)
(* ---------------------------------------------------------------------- *)
\* a frame that violates the trap protocol
ProtocolViolation(f) ==
  \/ ~is_user_vaddr(f.esp)
  \/ f.n < SYS_HALT
  \/ f.n > SYS_INUMBER
  \/ \E k \in 1..3 : ~is_user_vaddr(Slot(f.esp, k))

\* every stack word the kernel read was read after the validator accepted
\* its address
ReadsValidated(p) == \A addr \in log[p].read : Validated(p, addr)

\* C10: trap-entry protocol violations.  If the stack pointer is invalid, or
\* the syscall number is out of range, or an argument slot is invalid, the
\* trap is inside sys_exit (-1) or has terminated with status -1: no handler
\* was invoked, eax was not written, and no stack word was read before its
\* address was validated.
C10_ProtocolViolation ==
  \A p \in Procs :
    /\ ReadsValidated(p)
    /\ (pc[p] # "user" /\ ProtocolViolation(frame[p])) =>
         /\ InExit(p)
         /\ exit_arg[p] = Val(-1)
         /\ pc[p] = "exited" => return_status[p] = Val(-1)
         /\ eax[p] = Unset

\* a trap whose third argument slot lies in kernel memory has terminated
\* the process with status -1 after tearing down a handle it owned
C10_Witness ==
  \E p \in Procs :
    /\ pc[p] = "exited"
    /\ frame[p].esp = PHYS_BASE - 12
    /\ InRange(frame[p].n)
    /\ return_status[p] = Val(-1)
    /\ \E f \in DOMAIN files : files[f].by = p /\ files[f].closed = 1
    /\ Len(issued) = Len(files)

(* ---------------------------------------------------------------------- *)
(* C11                                                                     *)
(* ---------------------------------------------------------------------- *)
\* the trap of p is a read or write of a file identifier (neither 0 nor 1)
\* with a valid buffer, and p owns no handle with that identifier
UnresolvedReadWrite(p) ==
  /\ pc[p] # "user"
  /\ frame[p].n \in {SYS_READ, SYS_WRITE}
  /\ frame[p].a[1] \notin {STDIN_FILENO, STDOUT_FILENO}
  /\ ~BufferInvalid(frame[p].a[2], frame[p].a[3])
  /\ frame[p].a[1] \notin Ids(all_files[p])

\* C11: read and write on an unresolved identifier.  Such a trap never
\* reaches file_read or file_write, does not enter sys_exit, and when it
\* returns the value in eax is -1.
C11_UnresolvedReadWrite ==
  \A p \in Procs :
    UnresolvedReadWrite(p) =>
      /\ pc[p] \notin {"read_call", "write_call"}
      /\ ~InExit(p)
      /\ pc[p] = "ret" => eax[p] = Val(-1)

(* ---------------------------------------------------------------------- *)
(* C12                                                                     *)
(* ---------------------------------------------------------------------- *)
\* C12: exec with an invalid command-line pointer.  A trap of exec whose
\* pointer is not a user address never reaches process_execute, writes no
\* value to eax, and once past the test is inside sys_exit (-1).
C12_ExecInvalidPointer ==
  \A p \in Procs :
    (pc[p] # "user" /\ frame[p].n = SYS_EXEC /\ ~is_user_vaddr(frame[p].a[1])) =>
      /\ pc[p] # "exec_call"
      /\ eax[p] = Unset
      /\ pc[p] # "sys_exec" => (InExit(p) /\ exit_arg[p] = Val(-1))

(* ---------------------------------------------------------------------- *)
(* C13                                                                     *)
(* ---------------------------------------------------------------------- *)
\* C13: a failed open leaves no trace.  A step of sys_open that returns to
\* the trap entry point without a record having been allocated (null path,
\* filesys_open failed, malloc failed) returns -1, leaves the global list,
\* every ownership list and the identifier counter as they were, and every
\* file object it created is closed.
C13_FailedOpenNoTrace ==
  [][\A p \in Procs :
       (pc[p] \in {"sys_open", "open_call"} /\ pc'[p] = "ret") =>
         /\ eax'[p] = Val(-1)
         /\ open_file_list' = open_file_list
         /\ all_files' = all_files
         /\ fid' = fid
         /\ \A f \in DOMAIN files' : f \notin DOMAIN files => files'[f].closed = 1
         /\ \A f \in DOMAIN files : files'[f] = files[f]]_vars

\* an open has returned -1 after malloc failed: its file object is closed,
\* while the handle of an earlier, successful open is still registered
C13_Witness ==
  \E p \in Procs :
    /\ pc[p] = "ret"
    /\ frame[p].n = SYS_OPEN
    /\ eax[p] = Val(-1)
    /\ Len(issued) = 1
    /\ Len(files) = 2
    /\ files[2].closed = 1
    /\ Len(open_file_list) = 1
    /\ fid = FirstFid + 1

(* ---------------------------------------------------------------------- *)
(* C14                                                                     *)
(* ---------------------------------------------------------------------- *)
\* C14: close of an identifier the caller does not own.  When the close
\* system call of p runs with an identifier that is not in p's ownership
\* list, its step returns to the trap entry point: p does not enter
\* sys_exit, no file object is closed, and the global list and every
\* ownership list are unchanged.
C14_CloseUnownedNoOp ==
  [][\A p \in Procs :
       ( /\ pc[p] = "sys_close"
         /\ exit_arg[p] = Unset
         /\ loc[p].file_desc \notin Ids(all_files[p])
         /\ pc'[p] # "sys_close" ) =>
         /\ pc'[p] = "ret"
         /\ exit_arg'[p] = Unset
         /\ files' = files
         /\ open_file_list' = open_file_list
         /\ all_files' = all_files]_vars

\* p has returned from close (id) while another process owns an open handle
\* with that identifier, p owns none, and no file object was ever closed
C14_Witness ==
  \E p \in Procs : \E q \in Procs \ {p} :
    /\ pc[p] = "ret"
    /\ frame[p].n = SYS_CLOSE
    /\ frame[p].a[1] \in Ids(all_files[q])
    /\ all_files[p] = <<>>
    /\ open_file_list = all_files[q]
    /\ \A f \in DOMAIN files : files[f].closed = 0

(* ---------------------------------------------------------------------- *)
(* C15                                                                     *)
(* ---------------------------------------------------------------------- *)
\* the record the running sys_close of p is closing
ClosingFde(p) ==
  IF pc[p] = "sys_close" THEN find_fde_by_file(p, loc[p].file_desc) ELSE loc[p].fde

\* C15: two opens by one process.  Any two handles a process holds carry
\* distinct identifiers and distinct file objects; and a step of sys_close
\* touches only the record it closes: every other record of the caller
\* stays in the caller's list and in the global list, and its file object
\* is not closed.
C15_TwoOpensDistinct ==
  /\ [](\A p \in Procs : \A j, k \in DOMAIN all_files[p] :
          j # k => /\ all_files[p][j].filedesc # all_files[p][k].filedesc
                   /\ all_files[p][j].file # all_files[p][k].file)
  /\ [][\A p \in Procs :
          (pc[p] \in ClosePcs /\ pc'[p] # pc[p]) =>
            \A k \in DOMAIN all_files[p] :
              all_files[p][k] # ClosingFde(p) =>
                /\ all_files[p][k] \in Range(all_files'[p])
                /\ all_files[p][k] \in Range(open_file_list')
                /\ files'[all_files[p][k].file].closed = 0]_vars

(* ---------------------------------------------------------------------- *)
(* C16                                                                     *)
(* ---------------------------------------------------------------------- *)
\* every byte address of [buf, buf + size) lies below the kernel boundary
RangeInUser(buf, size) ==
  \A k \in 0..(size - 1) : buf + k < 2 ^ WordBits /\ is_user_vaddr(buf + k)

\* C16: range validation of the file branch of read and write.  The step
\* that validates the buffer goes on to the lookup and the file collaborator
\* if and only if every byte address of [buf, buf + size) is a user address.
C16_RangeValidation ==
  [][\A p \in Procs :
       ( /\ pc[p] \in {"sys_read", "sys_write"}
         /\ frame[p].a[1] \notin {STDIN_FILENO, STDOUT_FILENO}
         /\ pc'[p] # pc[p] ) =>
         ( pc'[p] \in {"read_find", "write_find"}
             <=> RangeInUser(frame[p].a[2], frame[p].a[3]) )]_vars

(* ---------------------------------------------------------------------- *)
(* C17                                                                     *)
(* ---------------------------------------------------------------------- *)
\* C17: read from standard input.  For every size, the loop never calls
\* input_getc more than size times, and when the read returns it has called
\* it exactly size times, the file lock is free and eax holds size.
C17_StdinRead ==
  \A p \in Procs :
    (pc[p] # "user" /\ frame[p].n = SYS_READ /\ frame[p].a[1] = STDIN_FILENO) =>
      /\ log[p].getc <= frame[p].a[3]
      /\ pc[p] = "ret" =>
           /\ log[p].getc = frame[p].a[3]
           /\ file_lock = NoProc
           /\ eax[p] = Val(frame[p].a[3])

(* ---------------------------------------------------------------------- *)
(* C18                                                                     *)
(* ---------------------------------------------------------------------- *)
\* C18: write to standard output.  When a write with identifier 1 returns,
\* after its one call of putbuf, the value in eax is a non-negative count
\* and not the failure value -1.
C18_WriteStdout ==
  \A p \in Procs :
    (pc[p] = "ret" /\ frame[p].n = SYS_WRITE /\ frame[p].a[1] = STDOUT_FILENO) =>
      /\ eax[p] # Unset
      /\ eax[p][1] >= 0

(* ---------------------------------------------------------------------- *)
(* C19                                                                     *)
(* ---------------------------------------------------------------------- *)
\* C19: the teardown loop of sys_exit terminates.  In every pass the
\* sys_close of the first record's identifier finds and closes that first
\* record, also when a later record carries the same identifier, and
\* removes exactly it from the caller's list; and a process inside sys_exit
\* eventually reaches thread_exit with the status it was given recorded.
C19_TeardownTerminates ==
  /\ [][\A p \in Procs :
          (InExit(p) /\ pc[p] = "sys_close" /\ pc'[p] # pc[p]) =>
            /\ all_files[p] # <<>>
            /\ pc'[p] = "close_remove_elem"
            /\ loc'[p].fde = Head(all_files[p])]_vars
  /\ [][\A p \in Procs :
          (InExit(p) /\ pc[p] = "close_remove_thread_elem" /\ pc'[p] # pc[p]) =>
            all_files'[p] = Tail(all_files[p])]_vars
  /\ \A p \in Procs :
       InExit(p) ~> (pc[p] = "exited" /\ return_status[p] = exit_arg[p])

\* a process is in the middle of its teardown: one of its file objects has
\* been closed by the first pass, and the two records still on its list
\* carry the same identifier
C19_Witness ==
  \E p \in Procs :
    /\ InExit(p)
    /\ pc[p] = "sys_close"
    /\ Len(all_files[p]) = 2
    /\ all_files[p][1].filedesc = all_files[p][2].filedesc
    /\ \E f \in DOMAIN files : files[f].by = p /\ files[f].closed = 1

(* ---------------------------------------------------------------------- *)
(* C20                                                                     *)
(* ---------------------------------------------------------------------- *)
\* C20: no use after close.  Under every interleaving, a process about to
\* invoke file_read, file_write, file_length, file_tell or file_seek on
\* the file object its lookup returned holds an object that has not been
\* closed: no close or exit teardown ran between the lookup and the use.
C20_NoUseAfterClose ==
  \A p \in Procs :
    (pc[p] \in FileCallPcs /\ loc[p].fl # NULL) =>
      files[loc[p].fl].closed = 0

====
